---- MODULE Spec2Model ----
(***************************************************************************)
(* State-machine model of src/app.py: the Flask application with its five  *)
(* SQLAlchemy tables (User, Case, TimelineEvent, Communication; Document   *)
(* has no route), the per-client session binding 'user_id', and one action *)
(* per route handler.                                                      *)
(*                                                                         *)
(* Strings are sequences of one-character strings, so that strip(),        *)
(* lower() and strptime() are computed and not assumed.  Python's None is  *)
(* the value None below, which is no string; the fixed words of the code   *)
(* ('FAMILY_LAW', 'medium') are kept whole, as one-element sequences.      *)
(***************************************************************************)
EXTENDS Integers, Sequences, FiniteSets, TLC

\* ------------------------------------------------------------------ bounds
MaxRows == 2     \* rows of the case, timeline_event and communication tables together
MaxEvents == 3   \* rows of the timeline_event table, where a timeline is listed
MaxRecent == 7   \* events of the cases of one user, where the dashboard is shown

\* ----------------------------------------------------------------- strings
None == <<"None">>                  \* Python None / a missing JSON key read with .get(k)
Empty == <<>>                       \* the empty string ''

IsStr(v) == v # None

Whitespace == {" "}
Digits == <<"0", "1", "2", "3", "4", "5", "6", "7", "8", "9">>
IsDigit(c) == \E i \in 1..Len(Digits) : Digits[i] = c
DigitVal(c) == (CHOOSE i \in 1..Len(Digits) : Digits[i] = c) - 1

\* str.lower() on the letters the inputs use
LowerChar(c) == IF c = "A" THEN "a" ELSE IF c = "B" THEN "b" ELSE c
Lower(s) == [i \in 1..Len(s) |-> LowerChar(s[i])]

\* str.strip(): drop leading and trailing whitespace
RECURSIVE LStrip(_)
LStrip(s) == IF s # <<>> /\ Head(s) \in Whitespace THEN LStrip(Tail(s)) ELSE s
RECURSIVE RStrip(_)
RStrip(s) == IF s # <<>> /\ s[Len(s)] \in Whitespace
             THEN RStrip(SubSeq(s, 1, Len(s) - 1)) ELSE s
Strip(s) == RStrip(LStrip(s))

\* s.split(sep): the fields of s between occurrences of the character sep
RECURSIVE Split(_, _)
Split(s, sep) ==
    IF \E i \in 1..Len(s) : s[i] = sep
    THEN LET i == CHOOSE k \in 1..Len(s) : s[k] = sep /\ \A j \in 1..(k - 1) : s[j] # sep
         IN <<SubSeq(s, 1, i - 1)>> \o Split(SubSeq(s, i + 1, Len(s)), sep)
    ELSE <<s>>

AllDigits(s) == \A i \in 1..Len(s) : IsDigit(s[i])
RECURSIVE NumVal(_)
NumVal(s) == IF s = <<>> THEN 0 ELSE 10 * NumVal(SubSeq(s, 1, Len(s) - 1)) + DigitVal(s[Len(s)])

\* --------------------------------------------------- datetime.strptime
ValueError == <<"ValueError">>      \* strptime raised ValueError
TypeError  == <<"TypeError">>       \* strptime raised TypeError (argument is not a str)

IsLeap(y) == (y % 4 = 0 /\ y % 100 # 0) \/ y % 400 = 0
DaysIn(y, m) == IF m = 2 THEN (IF IsLeap(y) THEN 29 ELSE 28)
                ELSE IF m \in {4, 6, 9, 11} THEN 30 ELSE 31

\* datetime.strptime(s, '%Y-%m-%d').date(): %Y is four digits, %m and %d one
\* or two digits in range; the result is the date <<y, m, d>>.
ParseDate(s) ==
    IF ~IsStr(s) THEN TypeError
    ELSE LET f == Split(s, "-") IN
         IF Len(f) # 3 THEN ValueError
         ELSE IF ~(Len(f[1]) = 4 /\ Len(f[2]) \in 1..2 /\ Len(f[3]) \in 1..2) THEN ValueError
         ELSE IF ~(AllDigits(f[1]) /\ AllDigits(f[2]) /\ AllDigits(f[3])) THEN ValueError
         ELSE LET y == NumVal(f[1])
                  m == NumVal(f[2])
                  d == NumVal(f[3])
              IN IF y >= 1 /\ m \in 1..12 /\ d >= 1 /\ d <= DaysIn(y, m)
                 THEN <<y, m, d>> ELSE ValueError

\* datetime.strptime(s, '%H:%M').time(): the time <<h, mi>>
ParseTime(s) ==
    IF ~IsStr(s) THEN TypeError
    ELSE LET f == Split(s, ":") IN
         IF Len(f) # 2 THEN ValueError
         ELSE IF ~(Len(f[1]) \in 1..2 /\ Len(f[2]) \in 1..2) THEN ValueError
         ELSE IF ~(AllDigits(f[1]) /\ AllDigits(f[2])) THEN ValueError
         ELSE LET h == NumVal(f[1])
                  mi == NumVal(f[2])
              IN IF h \in 0..23 /\ mi \in 0..59 THEN <<h, mi>> ELSE ValueError

Raised(v) == v = ValueError \/ v = TypeError

\* date.isoformat(): 'YYYY-MM-DD', zero padded
DigitChar(n) == Digits[n + 1]
Pad2(n) == <<DigitChar(n \div 10), DigitChar(n % 10)>>
Pad4(n) == <<DigitChar(n \div 1000), DigitChar((n \div 100) % 10)>> \o Pad2(n % 100)
IsoFormat(d) == Pad4(d[1]) \o <<"-">> \o Pad2(d[2]) \o <<"-">> \o Pad2(d[3])
\* time.strftime('%H:%M')
StrfTime(t) == Pad2(t[1]) \o <<":">> \o Pad2(t[2])

\* a <= b on dates <<y, m, d>>
DateLE(a, b) ==
    \/ a[1] < b[1]
    \/ a[1] = b[1] /\ a[2] < b[2]
    \/ a[1] = b[1] /\ a[2] = b[2] /\ a[3] <= b[3]

\* ------------------------------------------------------------ JSON bodies
Missing == <<"Missing">>            \* the key is absent from the JSON object
NoData == [nodata |-> TRUE]         \* request.get_json() is falsy: no body, or {}

\* dict.get(k, default)
Get(data, k, default) == IF data[k] = Missing THEN default ELSE data[k]

\* ---------------------------------------------------------------- the state
VARIABLES
    users,      \* table user: set of rows
    cases,      \* table case
    events,     \* table timeline_event
    comms,      \* table communication
    session,    \* session[s]: the 'user_id' of client session s, Anonymous if unset
    pending,    \* pending[s]: the register request of s between its check and its commit
    recent,     \* recent[s]: the user_id the last 200 of register or login told s,
                \* Anonymous after a logout answered 200 (observation only)
    last        \* the request just answered, with its response, until the client
                \* has received it (observation only)

vars == <<users, cases, events, comms, session, pending, recent, last>>
store == <<users, cases, events, comms>>

Sessions == {"s1", "s2"}
Anonymous == 0                      \* 'user_id' not in session

Ids(table) == {r.id : r \in table}
MaxId(table) == IF table = {} THEN 0 ELSE CHOOSE n \in Ids(table) : \A k \in Ids(table) : k <= n
\* the primary key the storage engine gives the next row (SQLite rowid: max + 1)
NextId(table) == MaxId(table) + 1
\* Model.query.get(id): the row, or None
QueryGet(table, id) == IF id \in Ids(table) THEN CHOOSE r \in table : r.id = id ELSE None

\* werkzeug.security: the salted hash is kept abstract, a value that only
\* check_password_hash relates to the password it was made from
generate_password_hash(password) == [method |-> "scrypt", of |-> password]
check_password_hash(pwhash, password) == pwhash = generate_password_hash(password)

\* query.order_by(date): every ordering of rows the engine may return, the
\* order among rows of equal date being the engine's choice
Orderings(rows) ==
    {f \in [1..Cardinality(rows) -> rows] : \A i, j \in DOMAIN f : i # j => f[i] # f[j]}
\* order_by(event_date), if the query had no order_by
order_by_nothing(rows) == Orderings(rows)

OrderByEventDate(rows) ==
    {f \in Orderings(rows) :
        \A i, j \in DOMAIN f : i < j => DateLE(f[i].event_date, f[j].event_date)}
OrderByDateDesc(rows) ==
    {f \in Orderings(rows) : \A i, j \in DOMAIN f : i < j => DateLE(f[j].date, f[i].date)}

\* ------------------------------------------------------------- responses
\* What a handler decides: the HTTP status, the 'error' message ("" if none),
\* the rest of the body, the session's binding and the tables after it.
Reply(s, status, error, body) ==
    [status |-> status, error |-> error, body |-> body, bind |-> session[s],
     users |-> users, cases |-> cases, events |-> events, comms |-> comms]

\* The row a request names, as it was when the request arrived.
NoTarget == [found |-> FALSE, owner |-> Anonymous]
UserTarget(data) ==
    IF data # NoData /\ \E u \in users : u.email = Lower(Strip(Get(data, "email", Empty)))
    THEN [found |-> TRUE,
          owner |-> (CHOOSE u \in users : u.email = Lower(Strip(Get(data, "email", Empty)))).id]
    ELSE NoTarget
CaseTarget(id) == IF id \in Ids(cases)
                  THEN [found |-> TRUE, owner |-> QueryGet(cases, id).user_id] ELSE NoTarget
CommTarget(id) == IF id \in Ids(comms)
                  THEN [found |-> TRUE, owner |-> QueryGet(comms, id).user_id] ELSE NoTarget

Delta(out) ==
    [added   |-> {<<"user", r.id>> : r \in out.users \ users}
                 \cup {<<"case", r.id>> : r \in out.cases \ cases}
                 \cup {<<"event", r.id>> : r \in out.events \ events}
                 \cup {<<"comm", r.id>> : r \in out.comms \ comms},
     removed |-> {<<"user", r.id>> : r \in users \ out.users}
                 \cup {<<"case", r.id>> : r \in cases \ out.cases}
                 \cup {<<"event", r.id>> : r \in events \ out.events}
                 \cup {<<"comm", r.id>> : r \in comms \ out.comms}]

\* The handler's outcome takes effect and its response goes to the client.
\* fault: the body lacked a required field, or a date or time of it had not
\* its format (see Malformed).
Respond(op, s, arg, fault, target, out) ==
    /\ users' = out.users
    /\ cases' = out.cases
    /\ events' = out.events
    /\ comms' = out.comms
    /\ session' = [session EXCEPT ![s] = out.bind]
    /\ recent' = [recent EXCEPT ![s] =
                     IF op \in {"register", "login"} /\ out.status = 200
                     THEN out.body[1].user_id
                     ELSE IF op = "logout" /\ out.status = 200 THEN Anonymous
                     ELSE @]
    /\ last' = [op |-> op, sess |-> s, uid |-> session[s], arg |-> arg, fault |-> fault,
                found |-> target.found, owner |-> target.owner,
                status |-> out.status, error |-> out.error, body |-> out.body,
                delta |-> Delta(out)]

\* ----------------------------------------------------------------- inputs
\* e-mail addresses as typed: with capitals and surrounding blanks
EmailInputs == {<<" ">>, <<"a">>, <<"A", " ">>, <<" ", "b">>}
\* passwords: none, five characters, and two of six characters
Secret == <<"s", "e", "c", "r", "e", "t">>
Hunter == <<"h", "u", "n", "t", "e", "r">>
RegisterBodies == {NoData} \cup
    [email : EmailInputs, password : {Missing, <<"p", "w", "1", "2", "3">>, Secret}]
LoginBodies == {NoData} \cup [email : EmailInputs, password : {Missing, Secret, Hunter}]

TitleInputs == {Missing, <<" ">>, <<" ", "t">>}
\* a create_case body may carry keys the handler never reads: legal_domain,
\* and a user_id (0: the key is absent)
CaseBodies == {NoData} \cup
    [case_title : TitleInputs, case_focus : {Missing}, legal_domain : {Missing, <<"CRIMINAL_LAW">>},
     user_id : {0} \cup Ids(users)]

GoodDates == {<<"2", "0", "2", "4", "-", "0", "1", "-", "1", "0">>,
              <<"2", "0", "2", "3", "-", "3", "-", "5">>}
BadDates == {Missing, Empty,
             <<"0", "3", "/", "1", "5", "/", "2", "0", "2", "4">>,
             <<"2", "0", "2", "3", "-", "0", "2", "-", "2", "9">>}
BadTimes == {Missing, <<"2", "5", ":", "0", "0">>, <<"9", "3", "0">>}
\* the ids a request may name: 0, every id of the table, and one past them.
\* In a JSON body a case_id of 0 stands for every falsy case_id: 0, null and
\* a missing key.
IdInputs(table) == 0..(MaxId(table) + 1)
GoodEvent(case_id, date) ==
    [case_id |-> case_id, event_date |-> date, event_title |-> <<"t", " ">>,
     category |-> Missing, impact_level |-> Missing]
\* well-formed bodies, and the bodies that differ from one in one field
EventBodies == {NoData}
    \cup {GoodEvent(c, d) : c \in IdInputs(cases), d \in GoodDates}
    \cup {GoodEvent(c, d) : c \in IdInputs(cases), d \in BadDates}
    \cup {[GoodEvent(c, <<"2", "0", "2", "4", "-", "0", "1", "-", "1", "0">>)
              EXCEPT !.event_title = ti] : c \in IdInputs(cases), ti \in TitleInputs}

Text == <<"x">>
GoodComm == [date |-> <<"2", "0", "2", "4", "-", "0", "1", "-", "1", "0">>,
             time |-> <<"0", "9", ":", "3", "0">>,
             platform |-> Text, sender |-> Text, recipient |-> Text,
             messageContent |-> Text, neutralSummary |-> Text, marking |-> Missing]
RequiredText == {"platform", "sender", "recipient", "messageContent", "neutralSummary"}
\* a well-formed body, and the bodies that differ from it in one field
CommBodies == {NoData, GoodComm}
    \cup {[GoodComm EXCEPT !.date = d] : d \in BadDates}
    \cup {[GoodComm EXCEPT !.time = tm] : tm \in BadTimes}
    \cup {[GoodComm EXCEPT ![f] = Missing] : f \in RequiredText}

\* What the requests are told apart by in `last`: the body lacks a required
\* field (or has it empty), or its date or time is not in the format the
\* handler parses.
Malformed(op, data) ==
    IF data = NoData THEN TRUE
    ELSE IF op \in {"register", "login"}
    THEN \/ Strip(Get(data, "email", Empty)) = Empty
         \/ Get(data, "password", Empty) = Empty
         \/ op = "register" /\ Len(data.password) < 6
    ELSE IF op = "create_case" THEN Strip(Get(data, "case_title", Empty)) = Empty
    ELSE IF op = "create_timeline_event"
    THEN \/ data.case_id = 0
         \/ Strip(Get(data, "event_title", Empty)) = Empty
         \/ Get(data, "event_date", Empty) = Empty
         \/ Raised(ParseDate(data.event_date))
    ELSE IF op = "add_communication"
    THEN \/ \E f \in RequiredText : data[f] = Missing
         \/ Raised(ParseDate(Get(data, "date", None)))
         \/ Raised(ParseTime(Get(data, "time", None)))
    ELSE FALSE

\* ----------------------------------------------------------------- register
\* register, lines 188-206: the checks before the row is built.  The status
\* 0 says that none of them answered and the handler goes on to the insert.
register_check(s, data) ==
    IF data = NoData THEN Reply(s, 400, "No data provided", <<>>)
    ELSE LET email == Lower(Strip(Get(data, "email", Empty)))
             password == Get(data, "password", Empty)
         IN IF email = Empty \/ password = Empty
            THEN Reply(s, 400, "Email and password are required", <<>>)
            ELSE IF Len(password) < 6
            THEN Reply(s, 400, "Password must be at least 6 characters", <<>>)
            ELSE IF \E u \in users : u.email = email
            THEN Reply(s, 400, "User already exists", <<>>)
            ELSE Reply(s, 0, "", <<[email |-> email,
                                   password_hash |-> generate_password_hash(password)]>>)

\* register, lines 209-226: add and commit.  The column email is unique, so
\* the commit raises IntegrityError when a row with this e-mail was committed
\* since the check; the except clause rolls back and answers 500.
register_commit(s, row) ==
    IF \E u \in users : u.email = row.email
    THEN Reply(s, 500, "Registration failed", <<>>)
    ELSE LET user == [id |-> NextId(users), email |-> row.email,
                      password_hash |-> row.password_hash, subscription_tier |-> "basic"]
         IN [Reply(s, 200, "", <<[user_id |-> user.id]>>)
                EXCEPT !.users = users \cup {user}, !.bind = user.id]

\* -------------------------------------------------------------------- login
\* login, if it told an unknown e-mail from a wrong password
login_reveals_user(s, data) ==
    IF data = NoData THEN Reply(s, 400, "No data provided", <<>>)
    ELSE LET email == Lower(Strip(Get(data, "email", Empty)))
             password == Get(data, "password", Empty)
         IN IF email = Empty \/ password = Empty
            THEN Reply(s, 400, "Email and password are required", <<>>)
            ELSE IF ~\E u \in users : u.email = email
            THEN Reply(s, 404, "User not found", <<>>)
            ELSE IF \E u \in users : u.email = email
                                      /\ check_password_hash(u.password_hash, password)
            THEN LET user == CHOOSE u \in users : u.email = email
                 IN [Reply(s, 200, "", <<[user_id |-> user.id]>>) EXCEPT !.bind = user.id]
            ELSE Reply(s, 401, "Invalid credentials", <<>>)

login(s, data) ==
    IF data = NoData THEN Reply(s, 400, "No data provided", <<>>)
    ELSE LET email == Lower(Strip(Get(data, "email", Empty)))
             password == Get(data, "password", Empty)
         IN IF email = Empty \/ password = Empty
            THEN Reply(s, 400, "Email and password are required", <<>>)
            ELSE IF \E u \in users : u.email = email
                                      /\ check_password_hash(u.password_hash, password)
            THEN LET user == CHOOSE u \in users : u.email = email
                 IN [Reply(s, 200, "", <<[user_id |-> user.id]>>) EXCEPT !.bind = user.id]
            ELSE Reply(s, 401, "Invalid credentials", <<>>)

\* ------------------------------------------------------------------- logout
\* logout, if it answered without popping 'user_id'
logout_keeps_binding(s) == Reply(s, 200, "", <<>>)

logout(s) == [Reply(s, 200, "", <<>>) EXCEPT !.bind = Anonymous]

\* -------------------------------------------------------------- create_case
\* create_case, if it took legal_domain from the body
create_case_client_domain(s, data) ==
    IF session[s] = Anonymous THEN Reply(s, 401, "Not authenticated", <<>>)
    ELSE IF data = NoData THEN Reply(s, 400, "No data provided", <<>>)
    ELSE LET case_title == Strip(Get(data, "case_title", Empty))
             case_focus == Get(data, "case_focus", <<"CUSTODY_PARENTING">>)
         IN IF case_title = Empty THEN Reply(s, 400, "Case title is required", <<>>)
            ELSE LET case == [id |-> NextId(cases), user_id |-> session[s],
                              case_title |-> case_title, case_focus |-> case_focus,
                              legal_domain |-> Get(data, "legal_domain", <<"FAMILY_LAW">>)]
                 IN [Reply(s, 200, "", <<[case_id |-> case.id]>>)
                        EXCEPT !.cases = cases \cup {case}]

create_case(s, data) ==
    IF session[s] = Anonymous THEN Reply(s, 401, "Not authenticated", <<>>)
    ELSE IF data = NoData THEN Reply(s, 400, "No data provided", <<>>)
    ELSE LET case_title == Strip(Get(data, "case_title", Empty))
             case_focus == Get(data, "case_focus", <<"CUSTODY_PARENTING">>)
         IN IF case_title = Empty THEN Reply(s, 400, "Case title is required", <<>>)
            ELSE LET case == [id |-> NextId(cases), user_id |-> session[s],
                              case_title |-> case_title, case_focus |-> case_focus,
                              legal_domain |-> <<"FAMILY_LAW">>]
                 IN [Reply(s, 200, "", <<[case_id |-> case.id]>>)
                        EXCEPT !.cases = cases \cup {case}]

\* ---------------------------------------------------- create_timeline_event
\* create_timeline_event, if it answered 403 for a case of another user
create_timeline_event_403(s, data) ==
    IF session[s] = Anonymous THEN Reply(s, 401, "Not authenticated", <<>>)
    ELSE IF data = NoData THEN Reply(s, 400, "No data provided", <<>>)
    ELSE LET case_id == data.case_id
             event_date_str == Get(data, "event_date", None)
             event_title == Strip(Get(data, "event_title", Empty))
         IN IF case_id = 0 \/ event_date_str = None \/ event_date_str = Empty
               \/ event_title = Empty
            THEN Reply(s, 400, "Case ID, event date, and event title are required", <<>>)
            ELSE LET event_date == ParseDate(event_date_str) IN
                 IF event_date = ValueError
                 THEN Reply(s, 400, "Invalid date format. Use YYYY-MM-DD", <<>>)
                 ELSE IF case_id \notin Ids(cases)
                 THEN Reply(s, 404, "Case not found or access denied", <<>>)
                 ELSE IF QueryGet(cases, case_id).user_id # session[s]
                 THEN Reply(s, 403, "Access denied", <<>>)
                 ELSE LET event == [id |-> NextId(events), case_id |-> case_id,
                                    event_date |-> event_date, event_title |-> event_title,
                                    category |-> Get(data, "category", <<"PARENTING_TIME">>),
                                    impact_level |-> Get(data, "impact_level", <<"medium">>)]
                      IN [Reply(s, 200, "", <<[event_id |-> event.id]>>)
                             EXCEPT !.events = events \cup {event}]

create_timeline_event(s, data) ==
    IF session[s] = Anonymous THEN Reply(s, 401, "Not authenticated", <<>>)
    ELSE IF data = NoData THEN Reply(s, 400, "No data provided", <<>>)
    ELSE LET case_id == data.case_id
             event_date_str == Get(data, "event_date", None)
             event_title == Strip(Get(data, "event_title", Empty))
         IN IF case_id = 0 \/ event_date_str = None \/ event_date_str = Empty
               \/ event_title = Empty
            THEN Reply(s, 400, "Case ID, event date, and event title are required", <<>>)
            ELSE LET event_date == ParseDate(event_date_str) IN
                 IF event_date = ValueError
                 THEN Reply(s, 400, "Invalid date format. Use YYYY-MM-DD", <<>>)
                 ELSE IF case_id \notin Ids(cases)
                         \/ QueryGet(cases, case_id).user_id # session[s]
                 THEN Reply(s, 404, "Case not found or access denied", <<>>)
                 ELSE LET event == [id |-> NextId(events), case_id |-> case_id,
                                    event_date |-> event_date, event_title |-> event_title,
                                    category |-> Get(data, "category", <<"PARENTING_TIME">>),
                                    impact_level |-> Get(data, "impact_level", <<"medium">>)]
                      IN [Reply(s, 200, "", <<[event_id |-> event.id]>>)
                             EXCEPT !.events = events \cup {event}]

\* ------------------------------------------------------ get_timeline_events
\* one entry of events_data, lines 364-375
EventJson(event) ==
    [id |-> event.id, event_date |-> IsoFormat(event.event_date),
     event_title |-> event.event_title, category |-> event.category,
     impact_level |-> event.impact_level]

\* TimelineEvent.query.filter_by(case_id=case_id).order_by(event_date).all()
EventsQuery(case_id) == OrderByEventDate({e \in events : e.case_id = case_id})

\* get_timeline_events, if it checked that the case exists and not whose it is
get_timeline_events_any_owner(s, case_id, rows) ==
    IF session[s] = Anonymous THEN Reply(s, 401, "Not authenticated", <<>>)
    ELSE IF case_id \notin Ids(cases)
    THEN Reply(s, 404, "Case not found or access denied", <<>>)
    ELSE Reply(s, 200, "", [i \in DOMAIN rows |-> EventJson(rows[i])])

\* rows: what the query of line 360 returned, one of EventsQuery(case_id)
get_timeline_events(s, case_id, rows) ==
    IF session[s] = Anonymous THEN Reply(s, 401, "Not authenticated", <<>>)
    ELSE IF case_id \notin Ids(cases) \/ QueryGet(cases, case_id).user_id # session[s]
    THEN Reply(s, 404, "Case not found or access denied", <<>>)
    ELSE Reply(s, 200, "", [i \in DOMAIN rows |-> EventJson(rows[i])])

\* ----------------------------------------------------------------- timeline
\* The page /timeline/<case_id>.  get_or_404 raises NotFound inside the try
\* block, and `except Exception` answers it with 500.
timeline(s, case_id, rows) ==
    IF session[s] = Anonymous THEN Reply(s, 302, "", <<[location |-> "index"]>>)
    ELSE IF case_id \notin Ids(cases) THEN Reply(s, 500, "Internal Server Error", <<>>)
    ELSE IF QueryGet(cases, case_id).user_id # session[s]
    THEN Reply(s, 302, "", <<[location |-> "dashboard"]>>)
    ELSE Reply(s, 200, "", [i \in DOMAIN rows |-> [id |-> rows[i].id]])

\* ------------------------------------------------------------ dashboard
QueryLimit == 5   \* limit(5) of the query of a case's events
ShownLimit == 5   \* recent_events[:5]

\* order_by(event_date.desc()).limit(n).all(): the first n rows of every
\* ordering of rows by event_date descending, the order (and so the choice)
\* among rows of equal date being the engine's
RECURSIVE OrderByEventDateDescLimit(_, _)
OrderByEventDateDescLimit(rows, n) ==
    IF n = 0 \/ rows = {} THEN {<<>>}
    ELSE UNION {{<<r>> \o rest : rest \in OrderByEventDateDescLimit(rows \ {r}, n - 1)} :
                   r \in {x \in rows : \A y \in rows : DateLE(y.event_date, x.event_date)}}
RecentEventsQuery(case_id) ==
    OrderByEventDateDescLimit({e \in events : e.case_id = case_id}, QueryLimit)

\* for case in cases: recent_events.extend(events of the case's query)
RECURSIVE ExtendRecentEvents(_)
ExtendRecentEvents(case_list) ==
    IF case_list = <<>> THEN {<<>>}
    ELSE {head \o tail : head \in RecentEventsQuery(Head(case_list).id),
                         tail \in ExtendRecentEvents(Tail(case_list))}

\* recent_events.sort(...), if it did nothing
sort_nothing(recent_events) == recent_events

\* recent_events.sort(key=event_date, reverse=True): a stable sort, rows of
\* equal date keep the order they had
RECURSIVE SortByEventDateReverse(_)
SortByEventDateReverse(recent_events) ==
    IF recent_events = <<>> THEN <<>>
    ELSE LET n == Len(recent_events)
             latest(i) == \A j \in 1..n : DateLE(recent_events[j].event_date,
                                                 recent_events[i].event_date)
             first == CHOOSE i \in 1..n : latest(i) /\ \A j \in 1..(i - 1) : ~latest(j)
         IN <<recent_events[first]>>
            \o SortByEventDateReverse(SubSeq(recent_events, 1, first - 1)
                                      \o SubSeq(recent_events, first + 1, n))

\* case_list: Case.query.filter_by(user_id=user.id).all(); fetched: the rows
\* the loop over case_list has put in recent_events
dashboard(s, case_list, fetched) ==
    IF session[s] = Anonymous THEN Reply(s, 302, "", <<[location |-> "index"]>>)
    ELSE IF session[s] \notin Ids(users)
    THEN [Reply(s, 302, "", <<[location |-> "index"]>>) EXCEPT !.bind = Anonymous]
    ELSE LET recent_events == SortByEventDateReverse(fetched)
             shown == IF Len(recent_events) < ShownLimit THEN Len(recent_events)
                      ELSE ShownLimit
         IN Reply(s, 200, "", <<[user |-> session[s], cases |-> case_list,
                                 recent_events |-> SubSeq(recent_events, 1, shown)]>>)

\* -------------------------------------------------------- add_communication
\* The constructor of lines 395-411 parses date and time with no check before
\* it: a TypeError (None) or ValueError (bad format) reaches `except
\* Exception`.  The columns platform .. neutral_summary are NOT NULL, so the
\* commit raises IntegrityError when one of them is None.  Both are answered
\* with a rollback and 500.
\* add_communication, if it looked at the body before the session
add_communication_body_first(s, data) ==
    IF data = NoData THEN Reply(s, 400, "No data provided", <<>>)
    ELSE IF session[s] = Anonymous THEN Reply(s, 401, "Not authenticated", <<>>)
    ELSE Reply(s, 500, "Communication entry failed", <<>>)

add_communication(s, data) ==
    IF session[s] = Anonymous THEN Reply(s, 401, "Not authenticated", <<>>)
    ELSE IF data = NoData THEN Reply(s, 400, "No data provided", <<>>)
    ELSE LET date == ParseDate(Get(data, "date", None))
             time == ParseTime(Get(data, "time", None))
             communication ==
                 [id |-> NextId(comms), user_id |-> session[s], date |-> date, time |-> time,
                  platform |-> Get(data, "platform", None),
                  sender |-> Get(data, "sender", None),
                  recipient |-> Get(data, "recipient", None),
                  message_content |-> Get(data, "messageContent", None),
                  neutral_summary |-> Get(data, "neutralSummary", None),
                  marking |-> Get(data, "marking", <<"documentation">>)]
         IN IF Raised(date) \/ Raised(time)
            THEN Reply(s, 500, "Communication entry failed", <<>>)
            ELSE IF \E f \in {"platform", "sender", "recipient",
                              "message_content", "neutral_summary"} : communication[f] = None
            THEN Reply(s, 500, "Communication entry failed", <<>>)
            ELSE [Reply(s, 200, "", <<[communication_id |-> communication.id]>>)
                     EXCEPT !.comms = comms \cup {communication}]

\* ------------------------------------------------------- get_communications
CommJson(comm) ==
    [id |-> comm.id, date |-> IsoFormat(comm.date), time |-> StrfTime(comm.time),
     platform |-> comm.platform, sender |-> comm.sender, recipient |-> comm.recipient,
     message_content |-> comm.message_content, neutral_summary |-> comm.neutral_summary,
     marking |-> comm.marking]

\* Communication.query.filter_by(user_id=session['user_id'])
\*     .order_by(Communication.date.desc()).all()
CommunicationsQuery(s) ==
    OrderByDateDesc({c \in comms : c.user_id = session[s]})

\* rows: what the query of line 429 returned, one of CommunicationsQuery(s)
get_communications(s, rows) ==
    IF session[s] = Anonymous THEN Reply(s, 401, "Not authenticated", <<>>)
    ELSE Reply(s, 200, "", [i \in DOMAIN rows |-> CommJson(rows[i])])

\* ----------------------------------------------------- delete_communication
\* get_or_404 raises NotFound inside the try block, and `except Exception`
\* answers it with 500 'Delete failed'.
\* delete_communication, if it deleted without the ownership test
delete_communication_any_owner(s, comm_id) ==
    IF session[s] = Anonymous THEN Reply(s, 401, "Not authenticated", <<>>)
    ELSE IF comm_id \notin Ids(comms) THEN Reply(s, 500, "Delete failed", <<>>)
    ELSE [Reply(s, 200, "", <<>>) EXCEPT !.comms = comms \ {QueryGet(comms, comm_id)}]

delete_communication(s, comm_id) ==
    IF session[s] = Anonymous THEN Reply(s, 401, "Not authenticated", <<>>)
    ELSE IF comm_id \notin Ids(comms) THEN Reply(s, 500, "Delete failed", <<>>)
    ELSE LET communication == QueryGet(comms, comm_id) IN
         IF communication.user_id # session[s] THEN Reply(s, 403, "Access denied", <<>>)
         ELSE [Reply(s, 200, "", <<>>) EXCEPT !.comms = comms \ {communication}]

\* ------------------------------------------------------------------ actions
\* The tables stay within the bound (the user table is bounded by the e-mail
\* addresses there are); primary keys run to one past it, so that a deleted
\* communication leaves a gap.
WithinBounds(out) ==
    /\ Cardinality(out.cases) + Cardinality(out.events) + Cardinality(out.comms) <= MaxRows
    /\ \A c \in out.comms : c.id <= MaxRows + 1

\* A client sends one request at a time: it is idle unless its register
\* request is between check and commit.
Idle(s) == pending[s] = <<>>

NoResponse ==
    [op |-> "none", sess |-> "s1", uid |-> Anonymous, arg |-> 0, fault |-> FALSE,
     found |-> FALSE, owner |-> Anonymous, status |-> 0, error |-> "",
     body |-> <<>>, delta |-> [added |-> {}, removed |-> {}]]

Handle(op, s, arg, fault, target, out) ==
    /\ Idle(s)
    /\ WithinBounds(out)
    /\ Respond(op, s, arg, fault, target, out)
    /\ UNCHANGED pending

\* POST /api/register up to the existence check of line 205: answered at
\* once, or left in flight with the row to insert
Register(s, data) ==
    /\ Idle(s)
    /\ LET out == register_check(s, data) IN
       IF out.status # 0
       THEN Respond("register", s, 0, Malformed("register", data), UserTarget(data), out)
            /\ UNCHANGED pending
       ELSE /\ pending' = [pending EXCEPT ![s] = out.body]
            /\ UNCHANGED <<users, cases, events, comms, session, recent, last>>

\* POST /api/register from db.session.add on
RegisterCommit(s) ==
    /\ ~Idle(s)
    /\ Respond("register", s, 0, FALSE, UserTarget(pending[s][1]),
               register_commit(s, pending[s][1]))
    /\ pending' = [pending EXCEPT ![s] = <<>>]

Login(s, data) ==
    Handle("login", s, 0, Malformed("login", data), UserTarget(data), login(s, data))

Logout(s) == Handle("logout", s, 0, FALSE, NoTarget, logout(s))

\* arg: the user_id the body carries (0: none), which the handler never reads
CreateCase(s, data) ==
    Handle("create_case", s, IF data = NoData THEN 0 ELSE data.user_id,
           Malformed("create_case", data), NoTarget, create_case(s, data))

CreateTimelineEvent(s, data) ==
    LET case_id == IF data = NoData THEN 0 ELSE data.case_id
    IN Handle("create_timeline_event", s, case_id,
              Malformed("create_timeline_event", data), CaseTarget(case_id),
              create_timeline_event(s, data))

GetTimelineEvents(s, case_id) ==
    \E rows \in EventsQuery(case_id) :
        Handle("get_timeline_events", s, case_id, FALSE, CaseTarget(case_id),
               get_timeline_events(s, case_id, rows))

Timeline(s, case_id) ==
    \E rows \in EventsQuery(case_id) :
        Handle("timeline", s, case_id, FALSE, CaseTarget(case_id),
               timeline(s, case_id, rows))

Dashboard(s) ==
    Idle(s) /\ \E case_list \in Orderings({c \in cases : c.user_id = session[s]}) :
        \E fetched \in ExtendRecentEvents(case_list) :
            /\ Respond("dashboard", s, 0, FALSE, NoTarget, dashboard(s, case_list, fetched))
            /\ UNCHANGED pending

AddCommunication(s, data) ==
    Handle("add_communication", s, 0, Malformed("add_communication", data), NoTarget,
           add_communication(s, data))

GetCommunications(s) ==
    \E rows \in CommunicationsQuery(s) :
        Handle("get_communications", s, 0, FALSE, NoTarget, get_communications(s, rows))

DeleteCommunication(s, comm_id) ==
    Handle("delete_communication", s, comm_id, FALSE, CommTarget(comm_id),
           delete_communication(s, comm_id))

\* the client has the response
Receive ==
    /\ last # NoResponse
    /\ last' = NoResponse
    /\ UNCHANGED <<users, cases, events, comms, session, pending, recent>>

\* ------------------------------------------------------------ specification
Init ==
    /\ users = {}
    /\ cases = {}
    /\ events = {}
    /\ comms = {}
    /\ session = [s \in Sessions |-> Anonymous]
    /\ pending = [s \in Sessions |-> <<>>]
    /\ recent = [s \in Sessions |-> Anonymous]
    /\ last = NoResponse

\* `last` shows one response at a time: the next handler step is observed
\* when the client has received it.  This orders no two handlers, it only
\* keeps the observation of one response apart from the next.
Ready == last = NoResponse

Next ==
    \/ Ready /\ \E s \in Sessions, data \in RegisterBodies : Register(s, data)
    \/ Ready /\ \E s \in Sessions : RegisterCommit(s)
    \/ Ready /\ \E s \in Sessions, data \in LoginBodies : Login(s, data)
    \/ Ready /\ \E s \in Sessions : Logout(s)
    \/ Ready /\ \E s \in Sessions, data \in CaseBodies : CreateCase(s, data)
    \/ Ready /\ \E s \in Sessions, data \in EventBodies : CreateTimelineEvent(s, data)
    \/ Ready /\ \E s \in Sessions, case_id \in IdInputs(cases) : GetTimelineEvents(s, case_id)
    \/ Ready /\ \E s \in Sessions, case_id \in IdInputs(cases) : Timeline(s, case_id)
    \/ Ready /\ \E s \in Sessions : Dashboard(s)
    \/ Ready /\ \E s \in Sessions, data \in CommBodies : AddCommunication(s, data)
    \/ Ready /\ \E s \in Sessions : GetCommunications(s)
    \/ Ready /\ \E s \in Sessions, comm_id \in IdInputs(comms) : DeleteCommunication(s, comm_id)
    \/ Receive

Spec == Init /\ [][Next]_vars

\* ------------------------------------------------------------------- claims
AuthOps == {"create_case", "create_timeline_event", "get_timeline_events",
            "add_communication", "get_communications", "delete_communication"}
NoDelta == [added |-> {}, removed |-> {}]
\* the user who owns the case of event id
EventOwner(id) == QueryGet(cases, QueryGet(events, id).case_id).user_id

\* C1: a request of a session bound to user A returns and lists only events
\* of A's cases and communications of A, adds only rows owned by A (an event
\* only to a case of A), deletes only a communication of A, and when it names
\* a case or communication of another user B it is refused with no record in
\* the response and no write.
C1_OwnerScoped ==
    last.uid # Anonymous =>
        /\ last.op \in {"get_timeline_events", "timeline"} /\ last.status = 200 =>
               \A i \in DOMAIN last.body : /\ last.body[i].id \in Ids(events)
                                           /\ EventOwner(last.body[i].id) = last.uid
        /\ last.op = "get_communications" =>
               \A i \in DOMAIN last.body : /\ last.body[i].id \in Ids(comms)
                                           /\ QueryGet(comms, last.body[i].id).user_id = last.uid
        /\ \A x \in last.delta.added :
               /\ x[1] = "case" => QueryGet(cases, x[2]).user_id = last.uid
               /\ x[1] = "event" => EventOwner(x[2]) = last.uid
               /\ x[1] = "comm" => QueryGet(comms, x[2]).user_id = last.uid
        /\ \A x \in last.delta.removed :
               x = <<"comm", last.arg>> /\ last.op = "delete_communication"
                                        /\ last.owner = last.uid
        /\ last.op \in {"get_timeline_events", "timeline", "create_timeline_event",
                        "delete_communication"}
             /\ last.found /\ last.owner # last.uid =>
               /\ last.status # 200
               /\ last.delta = NoDelta
               /\ \A i \in DOMAIN last.body : "id" \notin DOMAIN last.body[i]

\* user A has asked for the events of a case of user B that has events
C1_Witness ==
    /\ last.op = "get_timeline_events"
    /\ last.uid # Anonymous /\ last.found /\ last.owner # last.uid
    /\ \E e \in events : e.case_id = last.arg

\* C2 (as claimed): a register request whose normalised e-mail is that of a
\* row of the user table when it is answered gets 400 'User already exists',
\* and adds no row.
C2_DuplicateIsConflict ==
    last.op = "register" /\ ~last.fault /\ last.found =>
        /\ last.status = 400
        /\ last.error = "User already exists"
        /\ last.delta = NoDelta

\* C3: in every store state, a login with a registered e-mail and a wrong
\* password and a login with an e-mail that is not registered (both e-mails
\* non-empty once normalised, both passwords non-empty) have the same outcome:
\* status 401, the same body, the session binding and the tables as before.
Registered(data) == \E u \in users : u.email = Lower(Strip(data.email))
RightPassword(data) ==
    \E u \in users : /\ u.email = Lower(Strip(data.email))
                     /\ u.password_hash.of = data.password
C3_LoginIndistinguishable ==
    last = NoResponse =>
        \A s \in Sessions : \A d1, d2 \in LoginBodies \ {NoData} :
            /\ ~Malformed("login", d1) /\ ~Malformed("login", d2)
            /\ Registered(d1) /\ ~RightPassword(d1)
            /\ ~Registered(d2)
            => /\ login(s, d1) = login(s, d2)
               /\ login(s, d1).status = 401
               /\ login(s, d1) = Reply(s, 401, login(s, d1).error, login(s, d1).body)

\* a login with a registered e-mail and a wrong password has been refused
C3_Witness ==
    /\ last.op = "login" /\ last.status = 401
    /\ last.found /\ ~last.fault
    /\ \E d \in LoginBodies \ {NoData} : ~Malformed("login", d) /\ ~Registered(d)

\* C4: for a logged-in user, create_timeline_event (other fields valid) and
\* get_timeline_events have the same outcome for a case id (a positive
\* integer) that no case has and for the id of a case of another user:
\* status 404, the same body, no write.
C4_CaseExistenceHidden ==
    last = NoResponse =>
        \A s \in Sessions : \A id1, id2 \in 1..(MaxId(cases) + 1) :
            /\ session[s] # Anonymous
            /\ id1 \notin Ids(cases)
            /\ id2 \in Ids(cases) /\ QueryGet(cases, id2).user_id # session[s]
            => /\ \A d \in GoodDates :
                    /\ create_timeline_event(s, GoodEvent(id1, d))
                         = create_timeline_event(s, GoodEvent(id2, d))
                    /\ create_timeline_event(s, GoodEvent(id2, d))
                         = Reply(s, 404, "Case not found or access denied", <<>>)
               /\ \A r1 \in EventsQuery(id1), r2 \in EventsQuery(id2) :
                    /\ get_timeline_events(s, id1, r1) = get_timeline_events(s, id2, r2)
                    /\ get_timeline_events(s, id2, r2)
                         = Reply(s, 404, "Case not found or access denied", <<>>)

\* a logged-in user has been refused an event for a case of another user
C4_Witness ==
    /\ last.op = "create_timeline_event" /\ last.status = 404
    /\ last.uid # Anonymous /\ last.found /\ last.owner # last.uid

\* C5 (as claimed): a logged-in caller who names a missing id gets 404 from
\* timeline, get_timeline_events, create_timeline_event (other fields valid)
\* and delete_communication.
C5_MissingIdIs404 ==
    /\ last.op \in {"timeline", "get_timeline_events", "create_timeline_event",
                    "delete_communication"}
    /\ last.uid # Anonymous /\ ~last.found
    /\ ~(last.op = "create_timeline_event" /\ last.fault)
    => last.status = 404

\* C6 (as claimed): a logged-in create request with a missing or malformed
\* required field gets 400 and writes nothing.
C6_MalformedIs400 ==
    /\ last.op \in {"create_case", "create_timeline_event", "add_communication"}
    /\ last.uid # Anonymous /\ last.fault
    => last.status = 400 /\ last.delta = NoDelta

\* C7: delete_communication of an existing communication by a logged-in
\* user: the owner gets 200 and exactly that row is removed, no row of any
\* table added, removed or changed besides; another user gets 403, no row is
\* added, removed or changed, and the owner's listing still has it.
C7_DeleteFrame ==
    last.op = "delete_communication" /\ last.uid # Anonymous /\ last.found =>
        IF last.owner = last.uid
        THEN /\ last.status = 200
             /\ last.delta = [added |-> {}, removed |-> {<<"comm", last.arg>>}]
             /\ last.arg \notin Ids(comms)
        ELSE /\ last.status = 403
             /\ last.delta = NoDelta
             /\ last.arg \in Ids(comms)
             /\ \A s \in Sessions : session[s] = last.owner =>
                    \A rows \in CommunicationsQuery(s) :
                        \E i \in DOMAIN rows :
                            get_communications(s, rows).body[i].id = last.arg

\* the owner has deleted one of two communications
C7_Witness ==
    /\ last.op = "delete_communication" /\ last.status = 200
    /\ last.owner = last.uid /\ comms # {}

\* C8: a session is anonymous or bound to the id of one user row, and its
\* binding is the user_id of the last 200 that register or login gave it with
\* no logout since; a register or login that fails leaves the binding as it
\* was; logout answers 200 and leaves the session anonymous.
C8_SessionBinding ==
    /\ \A s \in Sessions : /\ session[s] = recent[s]
                           /\ session[s] = Anonymous \/ session[s] \in Ids(users)
    /\ last.op \in {"register", "login"} /\ last.status = 200 =>
           session[last.sess] = last.body[1].user_id
    /\ last.op \in {"register", "login"} /\ last.status # 200 =>
           session[last.sess] = last.uid
    /\ last.op = "logout" => last.status = 200 /\ session[last.sess] = Anonymous

\* a session bound to one user has logged in as another
C8_Witness ==
    /\ last.op = "login" /\ last.status = 200
    /\ last.uid # Anonymous /\ last.uid # session[last.sess]

\* C9: an anonymous session gets 401 'Not authenticated' from every
\* operation that requires authentication, whatever the body or id, with no
\* record in the response and no write.
C9_AnonymousIs401 ==
    last.op \in AuthOps /\ last.uid = Anonymous =>
        /\ last.status = 401
        /\ last.error = "Not authenticated"
        /\ last.body = <<>>
        /\ last.delta = NoDelta

\* an anonymous session has sent add_communication with no body
C9_Witness ==
    /\ last.op = "add_communication" /\ last.uid = Anonymous /\ last.fault
    /\ last.status = 401

\* C10: every case row has legal_domain 'FAMILY_LAW' and the owner its
\* creating session was bound to: create_case adds one case, owned by the
\* session's user, and no case row is changed or removed afterwards.
C10_CaseDomainAndOwner ==
    /\ \A c \in cases : c.legal_domain = <<"FAMILY_LAW">> /\ c.user_id \in Ids(users)
    /\ last.op = "create_case" /\ last.status = 200 =>
           /\ last.delta = [added |-> {<<"case", last.body[1].case_id>>}, removed |-> {}]
           /\ QueryGet(cases, last.body[1].case_id).user_id = last.uid
    /\ \A x \in last.delta.removed : x[1] # "case"
    /\ \A x \in last.delta.added : x[1] = "case" => last.op = "create_case"

\* a case has been created by a request whose body named another user's id
C10_Witness ==
    /\ last.op = "create_case" /\ last.status = 200
    /\ last.arg \in Ids(users) \ {last.uid}

\* ------------------------------------------------- the timeline of a case
\* The store after two users have registered and two cases were created, the
\* second by either user; then events are created, in any order of their
\* dates, and timelines are listed.
TwoUsers ==
    {[id |-> 1, email |-> <<"a">>, password_hash |-> generate_password_hash(Secret),
      subscription_tier |-> "basic"],
     [id |-> 2, email |-> <<"b">>, password_hash |-> generate_password_hash(Secret),
      subscription_tier |-> "basic"]}
CaseRow(id, user_id) ==
    [id |-> id, user_id |-> user_id, case_title |-> <<"t">>,
     case_focus |-> <<"CUSTODY_PARENTING">>, legal_domain |-> <<"FAMILY_LAW">>]
TimelineDates == GoodDates \cup {<<"2", "0", "2", "4", "-", "0", "1", "-", "0", "9">>}

InitTimeline ==
    /\ users = TwoUsers
    /\ cases \in {{CaseRow(1, 1), CaseRow(2, owner)} : owner \in {1, 2}}
    /\ events = {}
    /\ comms = {}
    /\ session = [s \in Sessions |-> IF s = "s1" THEN 1 ELSE 2]
    /\ pending = [s \in Sessions |-> <<>>]
    /\ recent = session
    /\ last = NoResponse

TimelineCreate(s, data) ==
    LET out == create_timeline_event(s, data)
    IN /\ Cardinality(out.events) <= MaxEvents
       /\ Respond("create_timeline_event", s, data.case_id, FALSE,
                  CaseTarget(data.case_id), out)
       /\ UNCHANGED pending

TimelineList(s, case_id) ==
    \E rows \in EventsQuery(case_id) :
        /\ Respond("get_timeline_events", s, case_id, FALSE, CaseTarget(case_id),
                   get_timeline_events(s, case_id, rows))
        /\ UNCHANGED pending

NextTimeline ==
    \/ Ready /\ \E s \in Sessions, c \in Ids(cases), d \in TimelineDates :
                    TimelineCreate(s, GoodEvent(c, d))
    \/ Ready /\ \E s \in Sessions, c \in Ids(cases) : TimelineList(s, c)
    \/ Receive

SpecTimeline == InitTimeline /\ [][NextTimeline]_vars

\* C11: get_timeline_events of an owned case returns the events of that case
\* and no other, each once, with the date it was created with, in
\* non-decreasing order of event_date, in whatever order they were created.
C11_TimelineOrdered ==
    last.op = "get_timeline_events" /\ last.status = 200 =>
        LET of_case == {e \in events : e.case_id = last.arg}
            date(i) == ParseDate(last.body[i].event_date)
        IN /\ Len(last.body) = Cardinality(of_case)
           /\ {last.body[i].id : i \in DOMAIN last.body} = Ids(of_case)
           /\ \A i \in DOMAIN last.body :
                  date(i) = QueryGet(events, last.body[i].id).event_date
           /\ \A i, j \in DOMAIN last.body : i < j => DateLE(date(i), date(j))

\* a case is listed whose later event was created first, while another case
\* has an event too
C11_Witness ==
    /\ last.op = "get_timeline_events" /\ last.status = 200
    /\ \E e1, e2 \in events :
           /\ e1.case_id = last.arg /\ e2.case_id = last.arg
           /\ e1.id < e2.id /\ ~DateLE(e1.event_date, e2.event_date)
    /\ \E e \in events : e.case_id # last.arg

\* ------------------------------------------- the dashboard's recent events
\* The store after two users have registered, the first has created two
\* cases and the second one, the first has created up to MaxRecent events,
\* each in either case on either date, and the second at most one, of the
\* later date.
RecentDates == {ParseDate(d) : d \in GoodDates}
EventRow(id, case_id, event_date) ==
    [id |-> id, case_id |-> case_id, event_date |-> event_date,
     event_title |-> <<"t">>, category |-> <<"PARENTING_TIME">>,
     impact_level |-> <<"medium">>]
RecentCases == {CaseRow(1, 1), CaseRow(2, 1), CaseRow(3, 2)}
\* the case and date of each of up to n events, in the order the events were
\* created: case by case and the events of a date together, from(x) on
LatestDate == CHOOSE d \in RecentDates : \A e \in RecentDates : DateLE(e, d)
CreationRank(x) == 2 * x[1] + (IF x[2] = LatestDate THEN 1 ELSE 0)
RECURSIVE Creations(_, _)
Creations(n, from) ==
    IF n = 0 THEN {<<>>}
    ELSE {<<>>} \cup
         UNION {{<<x>> \o rest : rest \in Creations(n - 1, CreationRank(x))} :
                    x \in {y \in {1, 2} \X RecentDates : CreationRank(y) >= from}}

InitDashboard ==
    /\ users = TwoUsers
    /\ cases = RecentCases
    /\ \E f \in Creations(MaxRecent, 0), other \in BOOLEAN :
           events = {EventRow(i, f[i][1], f[i][2]) : i \in DOMAIN f}
                    \cup (IF other THEN {EventRow(Len(f) + 1, 3, LatestDate)} ELSE {})
    /\ comms = {}
    /\ session = [s \in Sessions |-> IF s = "s1" THEN 1 ELSE 2]
    /\ pending = [s \in Sessions |-> <<>>]
    /\ recent = session
    /\ last = NoResponse

NextDashboard ==
    \/ Ready /\ \E s \in Sessions : Dashboard(s)
    \/ Receive

SpecDashboard == InitDashboard /\ [][NextDashboard]_vars

\* the number of the user's events of date d among the ShownLimit most
\* recent of all the user's events
GlobalTop(mine, d) ==
    LET same == Cardinality({e \in mine : e.event_date = d})
        later == Cardinality({e \in mine : e.event_date # d /\ DateLE(d, e.event_date)})
    IN IF later >= ShownLimit THEN 0
       ELSE IF same <= ShownLimit - later THEN same ELSE ShownLimit - later

\* C12: the recent events the dashboard shows are events of the session
\* user's cases, each at most once, min(5, number of the user's events) of
\* them, latest first, and of each date as many as are among the 5 most
\* recent of all the user's events, however the events lie over the cases.
C12_RecentEvents ==
    last.op = "dashboard" /\ last.status = 200 =>
        LET shown == last.body[1].recent_events
            mine == {e \in events : QueryGet(cases, e.case_id).user_id = last.uid}
        IN /\ \A i \in DOMAIN shown : shown[i] \in mine
           /\ \A i, j \in DOMAIN shown : i # j => shown[i].id # shown[j].id
           /\ Len(shown) = (IF Cardinality(mine) < ShownLimit THEN Cardinality(mine)
                            ELSE ShownLimit)
           /\ \A i, j \in DOMAIN shown :
                  i < j => DateLE(shown[j].event_date, shown[i].event_date)
           /\ \A d \in {e.event_date : e \in mine} :
                  Cardinality({i \in DOMAIN shown : shown[i].event_date = d})
                      = GlobalTop(mine, d)

\* the dashboard of a user one of whose cases has more events than the
\* query's limit, of both dates, whose other case has an event of the later
\* date, while another user's case has an event as well
C12_Witness ==
    /\ last.op = "dashboard" /\ last.status = 200
    /\ \E c \in cases :
           /\ c.user_id = last.uid
           /\ Cardinality({e \in events : e.case_id = c.id}) > QueryLimit
           /\ \E e1, e2 \in events : /\ e1.case_id = c.id /\ e2.case_id = c.id
                                     /\ e1.event_date # e2.event_date
                                     /\ \E e3 \in events :
                                            /\ e3.case_id # c.id
                                            /\ EventOwner(e3.id) = last.uid
                                            /\ ~DateLE(e3.event_date, e1.event_date)
    /\ \E e \in events : EventOwner(e.id) # last.uid

====
